---------------------------- MODULE Spec2Model ----------------------------
(***************************************************************************)
(* The chat panel of the assistant (src/app.py, show_user_panel) over the  *)
(* chats table (src/src/db.py).  Every browser session re-executes the     *)
(* page script on each interaction: it loads the owner's chats, clamps and *)
(* applies the session cursor chat_start_index, handles the one widget     *)
(* that triggered the run, filters the visible chats by the search box,    *)
(* and on a valid submit calls the AI backend and saves the exchange.      *)
(* A logged-out run that carries a verify_token verifies it against the   *)
(* users table, once in main and once in auth_page (src/src/auth.py).      *)
(* Text is a sequence of characters, so strip(), lower(), the substring    *)
(* test and the prompt's concatenation are computed, not assumed.          *)
(***************************************************************************)
EXTENDS Integers, Sequences, FiniteSets, TLC

VARIABLES
  tabs,              \* the browser sessions that are open
  chats,             \* the chats table: rows in insertion (rowid) order
  users,             \* the users table: one row per registered email
  nextId,            \* the next AUTOINCREMENT id of the chats table
  now,               \* the database clock (CURRENT_TIMESTAMP) at the last INSERT
  user,              \* st.session_state.user, per session
  chat_start_index,  \* st.session_state.chat_start_index, per session
  theme,             \* st.session_state.theme, per session
  pc,                \* where each session's script run stands
  total_chats,       \* local total_chats of the run
  visible_chats,     \* local visible_chats of the run
  displayed_chats,   \* local displayed_chats of the run
  inputs,            \* the widget values the run was given
  text,              \* local text of the run (the composed message)
  prompt,            \* local prompt of the run
  calls,             \* calls of ai_chat_response made by the run
  stale,             \* history: the run found its cursor past the end
  shown              \* the verify_token of a logged-out run and its two messages

vars == <<tabs, chats, users, nextId, now, user, chat_start_index, theme, pc,
          total_chats, visible_chats, displayed_chats, inputs, text, prompt,
          calls, stale, shown>>

(***************************************************************************)
(* Bounds of the model.                                                    *)
(***************************************************************************)
MaxSeed == 5       \* rows the table may already hold when the model starts
MaxNew == 1        \* rows saved while the model runs (one more per further session)

Sessions == {"s1", "s2"}
Users == {"u1", "u2"}
None == "None"

(***************************************************************************)
(* Text: sequences of characters.                                          *)
(***************************************************************************)
EmojiChar == ":)"
Whitespace == {" ", "\n", "\t"}

Max(a, b) == IF a > b THEN a ELSE b
Min(a, b) == IF a < b THEN a ELSE b

\* str.lower(), one character
LowerChar(c) ==
  CASE c = "H" -> "h"
    [] c = "I" -> "i"
    [] c = "O" -> "o"
    [] c = "K" -> "k"
    [] c = "U" -> "u"
    [] c = "A" -> "a"
    [] OTHER -> c

\* str.lower()
Lower(s) == [i \in 1..Len(s) |-> LowerChar(s[i])]

\* str.strip(): drops the leading and the trailing whitespace
RECURSIVE LStrip(_)
LStrip(s) ==
  IF s # <<>> /\ Head(s) \in Whitespace THEN LStrip(Tail(s)) ELSE s

RECURSIVE RStrip(_)
RStrip(s) ==
  IF s # <<>> /\ s[Len(s)] \in Whitespace
  THEN RStrip(SubSeq(s, 1, Len(s) - 1))
  ELSE s

Strip(s) == RStrip(LStrip(s))

\* q in s, for two strings
Contains(q, s) ==
  \E i \in 0..(Len(s) - Len(q)) : SubSeq(s, i + 1, i + Len(q)) = q

\* truthiness of a str
Truthy(s) == s # <<>>

(***************************************************************************)
(* The chats table.                                                        *)
(***************************************************************************)
SeedInputs == << <<"H", "i">>, <<"H", "i", " ", EmojiChar>>, <<EmojiChar>> >>
SeedReplies == << <<"O", "K">>, <<"h", "i">> >>

\* A row the table holds from an earlier run of the application.
SeedRow(i) ==
  [id |-> i, user_email |-> "u1",
   user_input |-> SeedInputs[(i % 3) + 1],
   ai_response |-> SeedReplies[(i % 2) + 1],
   thread_id |-> "NULL", timestamp |-> i]

SeedTable(k) == [i \in 1..k |-> SeedRow(i)]

\* The rows of one owner, in insertion order.
RowsOf(table, u) == SelectSeq(table, LAMBDA r : r.user_email = u)

Range(f) == {f[i] : i \in DOMAIN f}

\* Every order of the rows S that ascends by timestamp: ORDER BY timestamp
\* ASC says nothing about rows of equal timestamp.
RECURSIVE OrderedByTimestamp(_)
OrderedByTimestamp(S) ==
  IF S = {} THEN {<<>>}
  ELSE UNION {{<<r>> \o rest : rest \in OrderedByTimestamp(S \ {r})} :
              r \in {x \in S : \A y \in S : x.timestamp <= y.timestamp}}

\* get_user_chats: the results the query may return
get_user_chats(table, u) == OrderedByTimestamp(Range(RowsOf(table, u)))

\* (mutant) the INSERT replaces what the owner had stored
save_chat_upsert(table, id, ts, u, input, response) ==
  Append(SelectSeq(table, LAMBDA r : r.user_email # u),
         [id |-> id, user_email |-> u, user_input |-> input,
          ai_response |-> response, thread_id |-> "NULL",
          timestamp |-> ts])

\* save_chat: one INSERT, id and timestamp set by the database
save_chat(table, id, ts, u, input, response) ==
  Append(table, [id |-> id, user_email |-> u, user_input |-> input,
                 ai_response |-> response, thread_id |-> "NULL",
                 timestamp |-> ts])

\* (mutant) nothing is deleted
delete_user_chats_none(table, u) == table

\* (mutant) the DELETE has no WHERE clause
delete_user_chats_all(table, u) == <<>>

\* delete_user_chats: DELETE FROM chats WHERE user_email = ?
delete_user_chats(table, u) == SelectSeq(table, LAMBDA r : r.user_email # u)

(***************************************************************************)
(* The users table (src/src/db.py), as far as verification reads and       *)
(* writes it: email, verified, verification_token and its expiry.          *)
(***************************************************************************)
Null == <<"NULL">>      \* SQL NULL in a text column
NullTime == 0 - 1       \* SQL NULL in the expiry column

\* timedelta(hours=1) on the model's clock: longer than the seeded history
TokenLifetime == MaxSeed + 1

\* str(uuid.uuid4()) of signup_form: the token mailed to each email
TokenOf == [u \in Users |-> IF u = "u1" THEN <<"a", "1">> ELSE <<"b", "2">>]

\* create_user at time t: refused for a known email, else a row with
\* verified = 0 and the token valid for one TokenLifetime
create_user(table, email, verification_token, t) ==
  IF \E r \in table : r.email = email
  THEN table
  ELSE table \cup {[email |-> email, verified |-> 0,
                    verification_token |-> verification_token,
                    verification_token_expiry |-> t + TokenLifetime]}

\* verify_user_token at time t: its return value and the table it leaves
verify_user_token(table, token, t) ==
  LET rows == {r \in table : r.verification_token = token}
  IN IF rows = {}
     THEN [ok |-> FALSE, table |-> table]
     ELSE LET row == CHOOSE r \in rows : TRUE
          IN IF t > row.verification_token_expiry
             THEN [ok |-> FALSE, table |-> table]
             ELSE IF row.verified = 1
             THEN [ok |-> TRUE, table |-> table]
             ELSE [ok |-> TRUE,
                   table |-> {IF r.email = row.email
                              THEN [r EXCEPT !.verified = 1,
                                             !.verification_token = Null,
                                             !.verification_token_expiry = NullTime]
                              ELSE r : r \in table}]


(***************************************************************************)
(* The page script of show_user_panel, piece by piece.                     *)
(***************************************************************************)
Buttons == {"none", "theme", "new", "prev", "clear", "logout", "send"}
Messages == {<<>>, <<" ">>, <<" ", "H", "i">>}
Emojis == {<<>>, <<EmojiChar>>}
Queries == {<<>>, <<" ">>, <<"h", "I">>}
Replies == {<<"O", "K">>, <<"h", "i">>}

\* With one session open the runs draw their widget values from the sets
\* above; with several open, from these narrower ones.
Wide == Cardinality(tabs) = 1
ButtonsNow ==
  IF Wide THEN Buttons \ {"logout", "send"}
  ELSE Buttons \ {"logout", "send", "theme"}
QueriesNow == IF Wide THEN Queries ELSE {<<>>}
MessagesNow == IF Wide THEN Messages ELSE {<<>>, <<" ", "H", "i">>}
EmojisNow == IF Wide THEN Emojis ELSE {<<>>}
RepliesNow == Replies

\* the verify_token values a logged-out run may carry in its URL: the links
\* that send_verification_email mailed
Links == {TokenOf[u] : u \in Users}
LinksNow == IF Wide THEN Links ELSE {TokenOf["u1"]}

\* token = verify_tokens[0]: st.query_params.get returns the parameter as a
\* str, so the index takes its first character
FirstOf(verify_tokens) == SubSeq(verify_tokens, 1, 1)

\* the sidebar message for a result of verify_user_token
VerifyMessage(ok) == IF ok THEN "success" ELSE "error"

NothingShown == [verify_tokens |-> <<>>, main |-> "none", auth_page |-> "none"]

NoInputs == [button |-> "none", search_query |-> <<>>,
             new_message |-> <<>>, emoji |-> <<>>]

\* (mutant) the cursor is left as it is
ClampNone(idx, total) == idx

\* if chat_start_index > total_chats: chat_start_index = 0
Clamp(idx, total) == IF idx > total THEN 0 ELSE idx

\* all_chats_db[chat_start_index:]
VisibleSlice(all, idx) == SubSeq(all, idx + 1, Len(all))

\* New Chat: chat_start_index = total_chats
NewChatIndex(idx, total) == total

\* the sidebar buttons' effect on chat_start_index
SidebarIndex(b, idx, total) ==
  CASE b = "new" -> NewChatIndex(idx, total)
    [] b = "prev" -> 0
    [] b = "clear" -> 0
    [] b = "logout" -> 0
    [] OTHER -> idx

\* (mutant) New Chat deletes the stored conversation as Clear does
SidebarTableNewChatDeletes(b, table, u) ==
  IF b \in {"clear", "new"} THEN delete_user_chats(table, u) ELSE table

\* the sidebar buttons' effect on the chats table
SidebarTable(b, table, u) ==
  IF b = "clear" THEN delete_user_chats(table, u) ELSE table

\* the theme radio's effect on the session's theme
SidebarTheme(b, th) ==
  IF b = "theme" THEN (IF th = "Light" THEN "Dark" ELSE "Light") ELSE th

\* (mutant) only the user's input is searched
ChatMatchesInput(q, chat) == Contains(q, Lower(chat.user_input))

\* q in chat["user_input"].lower() or q in chat["ai_response"].lower()
ChatMatches(q, chat) ==
  \/ Contains(q, Lower(chat.user_input))
  \/ Contains(q, Lower(chat.ai_response))

\* [chat for chat in visible_chats if ...]
RECURSIVE Comprehension(_, _)
Comprehension(q, cs) ==
  IF cs = <<>> THEN <<>>
  ELSE IF ChatMatches(q, Head(cs))
       THEN <<Head(cs)>> \o Comprehension(q, Tail(cs))
       ELSE Comprehension(q, Tail(cs))

\* the search box applied to visible_chats
Displayed(visible, search_query) ==
  IF Truthy(search_query)
  THEN Comprehension(Lower(search_query), visible)
  ELSE visible

\* (mutant) the message is not stripped before the test
SubmitIsTurnUnstripped(send_bottom, new_message, emoji) ==
  send_bottom /\ (Truthy(new_message) \/ Truthy(emoji))

\* send_bottom and (new_message.strip() or emoji)
SubmitIsTurn(send_bottom, new_message, emoji) ==
  send_bottom /\ (Truthy(Strip(new_message)) \/ Truthy(emoji))

\* text = new_message.strip(); if emoji: text = (text + " " + emoji).strip()
ComposeText(new_message, emoji) ==
  IF Truthy(emoji)
  THEN Strip(Strip(new_message) \o <<" ">> \o emoji)
  ELSE Strip(new_message)

ContextWindow == 5

\* (mutant) the context taken from what the search box left on display
ContextSourceDisplayed(visible, displayed) == displayed

\* the list the context is taken from: visible_chats
ContextSource(visible, displayed) == visible

\* (mutant) the whole list instead of its last five
RecentVisibleAll(visible, displayed) == ContextSource(visible, displayed)

\* visible_chats[-5:]
RecentVisible(visible, displayed) ==
  LET src == ContextSource(visible, displayed)
  IN SubSeq(src, Max(1, Len(src) - ContextWindow + 1), Len(src))

UserLabel == <<"U", "s", "e", "r", ":", " ">>
AiLabel == <<"A", "I", ":", " ">>
AiCue == <<"A", "I", ":">>
NL == <<"\n">>

\* f"User: {chat['user_input']}\nAI: {chat['ai_response']}\n\n"
Exchange(chat) ==
  UserLabel \o chat.user_input \o NL \o AiLabel \o chat.ai_response \o NL \o NL

\* history = ""; for chat in recent_visible: history += ...
RECURSIVE HistoryLoop(_, _)
HistoryLoop(history, recent) ==
  IF recent = <<>> THEN history
  ELSE HistoryLoop(history \o Exchange(Head(recent)), Tail(recent))

\* prompt = history + f"User: {text}\nAI:"
BuildPrompt(recent, t) ==
  HistoryLoop(<<>>, recent) \o UserLabel \o t \o NL \o AiCue

\* the prompt of a run that shows `visible` under `search_query`
PagePrompt(visible, search_query, t) ==
  BuildPrompt(RecentVisible(visible, Displayed(visible, search_query)), t)

(***************************************************************************)
(* The state machine.                                                      *)
(***************************************************************************)
Start ==
  /\ nextId = MaxSeed + 1
  /\ now = MaxSeed
  /\ users = create_user(create_user({}, "u1", TokenOf["u1"], 0),
                         "u2", TokenOf["u2"], 0 - TokenLifetime)
  /\ shown = [s \in Sessions |-> NothingShown]
  /\ user = [s \in Sessions |-> None]
  /\ chat_start_index = [s \in Sessions |-> 0]
  /\ theme = [s \in Sessions |-> "Light"]
  /\ pc = [s \in Sessions |-> "idle"]
  /\ total_chats = [s \in Sessions |-> 0]
  /\ visible_chats = [s \in Sessions |-> <<>>]
  /\ displayed_chats = [s \in Sessions |-> <<>>]
  /\ inputs = [s \in Sessions |-> NoInputs]
  /\ text = [s \in Sessions |-> <<>>]
  /\ prompt = [s \in Sessions |-> <<>>]
  /\ calls = [s \in Sessions |-> 0]
  /\ stale = [s \in Sessions |-> FALSE]

\* every session open, over an empty table
Init ==
  /\ tabs = Sessions
  /\ chats = SeedTable(0)
  /\ Start

\* one session open, over an empty table or one that holds earlier rows
InitPanel ==
  /\ tabs = {"s1"}
  /\ chats \in {SeedTable(0), SeedTable(MaxSeed - 2), SeedTable(MaxSeed)}
  /\ Start

\* login_form: a registered user logs in
Login(s, u) ==
  /\ s \in tabs
  /\ pc[s] = "idle"
  /\ user[s] = None
  /\ user' = [user EXCEPT ![s] = u]
  /\ shown' = [shown EXCEPT ![s] = NothingShown]
  /\ UNCHANGED <<tabs, chats, users, nextId, now, chat_start_index, theme, pc,
                 total_chats, visible_chats, displayed_chats, inputs, text,
                 prompt, calls, stale>>

\* a logged-out run whose URL carries verify_token: main verifies the token
\* and reports, then auth_page verifies the same token and reports again
AuthRun(s) ==
  /\ s \in tabs
  /\ pc[s] = "idle"
  /\ user[s] = None
  /\ \E verify_tokens \in LinksNow :
       LET token == FirstOf(verify_tokens)
           first == verify_user_token(users, token, now)
           second == verify_user_token(first.table, token, now)
       IN /\ users' = second.table
          /\ shown' = [shown EXCEPT
                         ![s] = [verify_tokens |-> verify_tokens,
                                 main |-> VerifyMessage(first.ok),
                                 auth_page |-> VerifyMessage(second.ok)]]
  /\ UNCHANGED <<tabs, chats, nextId, now, user, chat_start_index, theme, pc,
                 total_chats, visible_chats, displayed_chats, inputs, text,
                 prompt, calls, stale>>

\* the run's top: load all chats, clamp the cursor, slice
Load(s) ==
  /\ pc[s] = "idle"
  /\ user[s] # None
  /\ \E all \in get_user_chats(chats, user[s]) :
       LET idx == Clamp(chat_start_index[s], Len(all))
       IN /\ total_chats' = [total_chats EXCEPT ![s] = Len(all)]
          /\ chat_start_index' = [chat_start_index EXCEPT ![s] = idx]
          /\ visible_chats' = [visible_chats EXCEPT ![s] = VisibleSlice(all, idx)]
          /\ stale' = [stale EXCEPT ![s] = chat_start_index[s] > Len(all)]
  /\ pc' = [pc EXCEPT ![s] = "loaded"]
  /\ UNCHANGED <<tabs, users, shown, chats, nextId, now, user, theme,
                 displayed_chats, inputs,
                 text, prompt, calls>>

\* Logout: the session forgets its user and st.rerun() ends the run
Logout(s) ==
  /\ pc[s] = "loaded"
  /\ user' = [user EXCEPT ![s] = None]
  /\ chat_start_index' =
       [chat_start_index EXCEPT
          ![s] = SidebarIndex("logout", chat_start_index[s], total_chats[s])]
  /\ pc' = [pc EXCEPT ![s] = "idle"]
  /\ total_chats' = [total_chats EXCEPT ![s] = 0]
  /\ visible_chats' = [visible_chats EXCEPT ![s] = <<>>]
  /\ stale' = [stale EXCEPT ![s] = FALSE]
  /\ UNCHANGED <<tabs, users, shown, chats, nextId, now, theme,
                 displayed_chats, inputs, text,
                 prompt, calls>>

\* the rest of the run under the widget values in: sidebar, search, submit
Page(s, in) ==
  LET b == in.button
      turn == SubmitIsTurn(b = "send", in.new_message, in.emoji)
      t == ComposeText(in.new_message, in.emoji)
  IN /\ pc[s] = "loaded"
     /\ b # "logout"
     /\ inputs' = [inputs EXCEPT ![s] = in]
     /\ theme' = [theme EXCEPT ![s] = SidebarTheme(b, theme[s])]
     /\ chat_start_index' =
          [chat_start_index EXCEPT
             ![s] = SidebarIndex(b, chat_start_index[s], total_chats[s])]
     /\ chats' = SidebarTable(b, chats, user[s])
     /\ displayed_chats' =
          [displayed_chats EXCEPT
             ![s] = Displayed(visible_chats[s], in.search_query)]
     /\ IF turn
        THEN /\ text' = [text EXCEPT ![s] = t]
             /\ prompt' = [prompt EXCEPT
                             ![s] = PagePrompt(visible_chats[s], in.search_query, t)]
             /\ calls' = [calls EXCEPT ![s] = calls[s] + 1]
             /\ pc' = [pc EXCEPT ![s] = "awaiting"]
        ELSE /\ pc' = [pc EXCEPT ![s] = "rendered"]
             /\ UNCHANGED <<text, prompt, calls>>
     /\ UNCHANGED <<tabs, users, shown, nextId, now, user, total_chats, visible_chats, stale>>

\* a run triggered by a sidebar widget or by the search box
Interact(s) ==
  \E b \in ButtonsNow, q \in QueriesNow :
    Page(s, [button |-> b, search_query |-> q,
             new_message |-> <<>>, emoji |-> <<>>])

\* a run triggered by the form's Send
Submit(s) ==
  \E q \in QueriesNow, m \in MessagesNow, e \in EmojisNow :
    Page(s, [button |-> "send", search_query |-> q,
             new_message |-> m, emoji |-> e])

\* what ai_chat_response may do: return a reply, or raise
BackendOutcomes == {"reply", "error"}

\* CURRENT_TIMESTAMP of an INSERT: the same second as the last one, or later;
\* two sessions at once are followed within one second
ClockReadings == IF Wide THEN {now, now + 1} ELSE {now}

\* ai_chat_response returned: save_chat(user_email, text, ai_reply)
AfterReply(s, reply) ==
  /\ \E ts \in ClockReadings :
       /\ chats' = save_chat(chats, nextId, ts, user[s], text[s], reply)
       /\ now' = ts
  /\ nextId' = nextId + 1
  /\ pc' = [pc EXCEPT ![s] = "saved"]
  /\ UNCHANGED calls

\* (mutant) the call is made again after an error
AfterErrorRetry(s) ==
  /\ pc' = [pc EXCEPT ![s] = "awaiting"]
  /\ calls' = [calls EXCEPT ![s] = calls[s] + 1]
  /\ UNCHANGED <<chats, nextId, now>>

\* ai_chat_response raised: nothing catches it, the run ends
AfterError(s) ==
  /\ pc' = [pc EXCEPT ![s] = "failed"]
  /\ UNCHANGED <<chats, nextId, now, calls>>

BackendReply(s) ==
  /\ pc[s] = "awaiting"
  /\ "reply" \in BackendOutcomes
  /\ nextId <= MaxSeed + MaxNew + Cardinality(tabs) - 1
  /\ \E reply \in RepliesNow : AfterReply(s, reply)
  /\ UNCHANGED <<tabs, users, shown, user, chat_start_index, theme, total_chats,
                 visible_chats, displayed_chats, inputs, text, prompt, stale>>

BackendError(s) ==
  /\ pc[s] = "awaiting"
  /\ "error" \in BackendOutcomes
  /\ AfterError(s)
  /\ UNCHANGED <<tabs, users, shown, user, chat_start_index, theme, total_chats,
                 visible_chats, displayed_chats, inputs, text, prompt, stale>>

\* the script run is over; its locals are gone
EndRun(s) ==
  /\ pc[s] \in {"rendered", "saved", "failed"}
  /\ pc' = [pc EXCEPT ![s] = "idle"]
  /\ total_chats' = [total_chats EXCEPT ![s] = 0]
  /\ visible_chats' = [visible_chats EXCEPT ![s] = <<>>]
  /\ displayed_chats' = [displayed_chats EXCEPT ![s] = <<>>]
  /\ inputs' = [inputs EXCEPT ![s] = NoInputs]
  /\ text' = [text EXCEPT ![s] = <<>>]
  /\ prompt' = [prompt EXCEPT ![s] = <<>>]
  /\ calls' = [calls EXCEPT ![s] = 0]
  /\ stale' = [stale EXCEPT ![s] = FALSE]
  /\ UNCHANGED <<tabs, users, shown, chats, nextId, now, user, chat_start_index, theme>>

Next ==
  \/ \E s \in Sessions, u \in Users : Login(s, u)
  \/ \E s \in Sessions : AuthRun(s)
  \/ \E s \in Sessions : Load(s)
  \/ \E s \in Sessions : Logout(s)
  \/ \E s \in Sessions : Interact(s)
  \/ \E s \in Sessions : Submit(s)
  \/ \E s \in Sessions : BackendReply(s)
  \/ \E s \in Sessions : BackendError(s)
  \/ \E s \in Sessions : EndRun(s)

Spec == Init /\ [][Next]_vars

SpecPanel == InitPanel /\ [][Next]_vars

(***************************************************************************)
(* The claims.                                                             *)
(***************************************************************************)
Running == {"rendered", "awaiting", "saved", "failed"}

\* the row of an owner that was inserted last
Newest(rows) == rows[Len(rows)]

\* C1: once New Chat has set chat_start_index to the owner's N records, the
\* visible set a run computes is empty, and after one more append it holds
\* exactly one record, the newly appended one.
C1_NewChatThenAppend ==
  \A s \in Sessions :
    pc[s] = "loaded" =>
      LET rows == RowsOf(chats, user[s])
      IN /\ chat_start_index[s] = Len(rows) => visible_chats[s] = <<>>
         /\ chat_start_index[s] + 1 = Len(rows) =>
              visible_chats[s] = <<Newest(rows)>>

\* C7: get_user_chats returns the owner's rows in insertion order, also
\* when rows hold the same timestamp.
C7_ListInCreationOrder ==
  \A u \in Users : get_user_chats(chats, u) = {RowsOf(chats, u)}

InTurn == {"awaiting", "saved", "failed"}

\* C2: the prompt of a turn is the same under every search query: it is
\* built from the visible chats, never from the filtered ones.
C2_PromptIgnoresSearch ==
  \A s \in Sessions :
    pc[s] \in InTurn =>
      \A q \in Queries : PagePrompt(visible_chats[s], q, text[s]) = prompt[s]

\* C2's case: a turn sent while the search box filters the display to nothing
C2_Witness ==
  \E s \in Sessions :
    /\ pc[s] = "awaiting"
    /\ inputs[s].search_query # <<>>
    /\ visible_chats[s] # <<>>
    /\ displayed_chats[s] = <<>>

\* one record as its two lines and a blank line
C3_Lines(c) ==
  <<"U", "s", "e", "r", ":", " ">> \o c.user_input \o <<"\n">>
    \o <<"A", "I", ":", " ">> \o c.ai_response \o <<"\n", "\n">>

\* records i..n of V, in order
RECURSIVE C3_Join(_, _, _)
C3_Join(V, i, n) ==
  IF i > n THEN <<>> ELSE C3_Lines(V[i]) \o C3_Join(V, i + 1, n)

\* the exchanges a prompt holds: its blank lines
C3_Exchanges(p) ==
  Cardinality({i \in 1..(Len(p) - 1) : p[i] = "\n" /\ p[i + 1] = "\n"})

\* C3: the prompt is the last min(5, n) visible records, each as
\* "User: <input>\nAI: <response>\n\n", in order, then "User: <t>\nAI:".
C3_PromptIsLastFive ==
  \A s \in Sessions :
    pc[s] \in InTurn =>
      LET V == visible_chats[s]
          n == Len(V)
          k == Min(5, n)
      IN /\ prompt[s] = C3_Join(V, n - k + 1, n)
                          \o <<"U", "s", "e", "r", ":", " ">> \o text[s]
                          \o <<"\n", "A", "I", ":">>
         /\ C3_Exchanges(prompt[s]) = k
         /\ k <= 5
         /\ n < 5 => k = n

\* C3's case: a turn over more than five visible records
C3_Witness ==
  \E s \in Sessions : pc[s] = "awaiting" /\ Len(visible_chats[s]) > 5

\* C4: a turn calls the backend at most once and never again; a reply
\* appends exactly one record (owner, composed text, reply) to the table, an
\* error appends none and leaves the table and the session's cursor alone.
C4_OneCallOneRecord ==
  [][\A s \in Sessions :
       /\ calls'[s] <= 1
       /\ pc[s] = "awaiting" => calls[s] = 1
       /\ pc[s] = "failed" => pc'[s] \in {"failed", "idle"}
       /\ (pc[s] = "awaiting" /\ pc'[s] = "saved") =>
            /\ Len(chats') = Len(chats) + 1
            /\ SubSeq(chats', 1, Len(chats)) = chats
            /\ chats'[Len(chats')].user_email = user[s]
            /\ chats'[Len(chats')].user_input = text[s]
            /\ chats'[Len(chats')].ai_response \in Replies
            /\ text[s] # <<>>
       /\ (pc[s] = "awaiting" /\ pc'[s] = "failed") =>
            /\ chats' = chats
            /\ chat_start_index'[s] = chat_start_index[s]
    ]_vars

\* C4's case: the backend call of a turn failed
C4_Witness ==
  \E s \in Sessions : pc[s] = "failed" /\ calls[s] = 1 /\ text[s] # <<>>

\* C5: when a run computes its visible set, 0 <= chat_start_index <= total
\* holds, whatever the other sessions did before; a cursor found past the
\* end is reset to 0 before the slice.
C5_CursorWithinLog ==
  [][\A s \in Sessions :
       (pc[s] = "idle" /\ pc'[s] = "loaded") =>
         LET n == Len(RowsOf(chats, user[s]))
         IN /\ total_chats'[s] = n
            /\ 0 <= chat_start_index'[s]
            /\ chat_start_index'[s] <= n
            /\ chat_start_index[s] > n => chat_start_index'[s] = 0
            /\ chat_start_index[s] <= n =>
                 chat_start_index'[s] = chat_start_index[s]
            /\ Len(visible_chats'[s]) = n - chat_start_index'[s]
    ]_vars

\* C5's case: a run found its cursor past the end and reset it
C5_Witness ==
  \E s \in Sessions :
    pc[s] = "loaded" /\ stale[s] /\ chat_start_index[s] = 0

\* C6: after Clear Chat History the owner's list is empty and the cursor is
\* 0, whatever the log held; on an empty log it changes nothing.
C6_ClearEmptiesLog ==
  [][\A s \in Sessions :
       (pc[s] = "loaded" /\ pc'[s] = "rendered"
          /\ inputs'[s].button = "clear") =>
         /\ get_user_chats(chats', user[s]) = {<<>>}
         /\ chat_start_index'[s] = 0
         /\ RowsOf(chats, user[s]) = <<>> => chats' = chats
    ]_vars

\* C6's case: a run loaded a log that held records and cleared it
C6_Witness ==
  \E s \in Sessions :
    /\ pc[s] = "rendered"
    /\ inputs[s].button = "clear"
    /\ total_chats[s] > 0
    /\ RowsOf(chats, user[s]) = <<>>
    /\ chat_start_index[s] = 0

\* two characters that differ at most in case
C9_SameLetter(a, b) ==
  \/ a = b
  \/ {a, b} \in {{"H", "h"}, {"I", "i"}, {"O", "o"}, {"K", "k"},
                 {"U", "u"}, {"A", "a"}}

\* q occurs in t, case ignored
C9_Occurs(q, t) ==
  \E off \in 0..(Len(t) - Len(q)) :
    \A k \in 1..Len(q) : C9_SameLetter(q[k], t[off + k])

\* the places of V whose input or response holds q
C9_Matching(V, q) ==
  {j \in 1..Len(V) :
     C9_Occurs(q, V[j].user_input) \/ C9_Occurs(q, V[j].ai_response)}

\* D is V restricted to the places J, in V's order
C9_Selects(D, V, J) ==
  /\ Len(D) = Cardinality(J)
  /\ \A i \in 1..Len(D) :
       \E j \in J : Cardinality({k \in J : k <= j}) = i /\ D[i] = V[j]

BlankQuery(q) == \A i \in 1..Len(q) : q[i] \in Whitespace

\* C8: a search query that is empty or only whitespace leaves the visible
\* set unchanged: the displayed chats are the visible chats.
C8_BlankQueryShowsAll ==
  \A s \in Sessions :
    (pc[s] \in Running /\ BlankQuery(inputs[s].search_query)) =>
      displayed_chats[s] = visible_chats[s]

\* What the code does of C8: an empty query shows the visible set unchanged;
\* a query of whitespace is searched for like any other query.
EmptyQueryShowsAll ==
  \A s \in Sessions :
    pc[s] \in Running =>
      LET q == inputs[s].search_query
      IN /\ q = <<>> => displayed_chats[s] = visible_chats[s]
         /\ (q # <<>> /\ BlankQuery(q)) =>
              C9_Selects(displayed_chats[s], visible_chats[s],
                         C9_Matching(visible_chats[s], q))

\* C9: under a non-empty query the displayed chats are the visible ones
\* whose input or response holds the query, case ignored, in their order;
\* none matching gives the empty list.
C9_FilterSelectsMatches ==
  \A s \in Sessions :
    (pc[s] \in Running /\ inputs[s].search_query # <<>>) =>
      C9_Selects(displayed_chats[s], visible_chats[s],
                 C9_Matching(visible_chats[s], inputs[s].search_query))

\* C9's case: a query in another case keeps some records, one of them for
\* its response alone, and drops others
C9_Witness ==
  \E s \in Sessions :
    /\ pc[s] = "rendered"
    /\ inputs[s].search_query = <<"h", "I">>
    /\ displayed_chats[s] # <<>>
    /\ Len(displayed_chats[s]) < Len(visible_chats[s])
    /\ \E i \in 1..Len(displayed_chats[s]) :
         ~C9_Occurs(<<"h", "I">>, displayed_chats[s][i].user_input)

\* a message that holds more than whitespace
C10_HasText(m) == \E i \in 1..Len(m) : m[i] \notin Whitespace

\* C10: a submit starts a turn exactly when the message holds more than
\* whitespace or an emoji is chosen; otherwise no backend call is made and
\* the table and the cursor stay as they are.
C10_SubmitValidation ==
  [][\A s \in Sessions :
       (pc[s] = "loaded" /\ pc'[s] \in Running
          /\ inputs'[s].button = "send") =>
         LET valid == C10_HasText(inputs'[s].new_message)
                        \/ inputs'[s].emoji # <<>>
         IN /\ pc'[s] = "awaiting" <=> valid
            /\ ~valid => /\ pc'[s] = "rendered"
                         /\ calls'[s] = 0
                         /\ chats' = chats
                         /\ chat_start_index'[s] = chat_start_index[s]
            /\ (valid /\ ~C10_HasText(inputs'[s].new_message)) =>
                 text'[s] = inputs'[s].emoji
    ]_vars

\* C10's case: a submit of whitespace alone, no emoji
C10_Witness ==
  \E s \in Sessions :
    /\ pc[s] = "rendered"
    /\ inputs[s].button = "send"
    /\ inputs[s].new_message = <<" ">>
    /\ inputs[s].emoji = <<>>
    /\ calls[s] = 0

\* C11: when a session saves its turn while another session of the same owner
\* is in a turn of its own, the table grows by exactly one record, holding
\* the saving session's text and the reply it got under a fresh id; every
\* record stored before is still there unchanged, and the other session's
\* pending turn (its text, its prompt, its position) is untouched.
C11_ConcurrentAppendsKept ==
  [][\A s \in Sessions, t \in Sessions :
       ( /\ s # t
         /\ user[s] = user[t]
         /\ pc[s] = "awaiting" /\ pc'[s] = "saved"
         /\ pc[t] \in {"awaiting", "saved"} ) =>
           /\ Len(chats') = Len(chats) + 1
           /\ SubSeq(chats', 1, Len(chats)) = chats
           /\ chats'[Len(chats')].user_email = user[s]
           /\ chats'[Len(chats')].user_input = text[s]
           /\ chats'[Len(chats')].ai_response \in Replies
           /\ \A i \in 1..Len(chats) : chats[i].id # chats'[Len(chats')].id
           /\ Len(RowsOf(chats', user[t])) = Len(RowsOf(chats, user[t])) + 1
           /\ text'[t] = text[t]
           /\ prompt'[t] = prompt[t]
           /\ pc'[t] = pc[t]
    ]_vars

\* C11's case: two sessions of one owner have both saved a turn, and the two
\* newest records of the owner hold the two different replies
C11_Witness ==
  \E s \in Sessions, t \in Sessions :
    /\ s # t
    /\ user[s] = user[t]
    /\ pc[s] = "saved" /\ pc[t] = "saved"
    /\ LET mine == RowsOf(chats, user[s])
           n == Len(mine)
       IN /\ n >= 2
          /\ mine[n].id # mine[n - 1].id
          /\ mine[n].ai_response # mine[n - 1].ai_response
          /\ mine[n].user_input = text[s]
          /\ mine[n - 1].user_input = text[t]

\* C12: a step taken by a session (login, load, page run with any button,
\* submit, backend outcome, end of run, logout) leaves the records of every
\* owner other than the session's own as they were, and leaves the cursor
\* and the login of every other session as they were.
C12_OtherOwnersUntouched ==
  [][\A s \in Sessions :
       (pc'[s] # pc[s] \/ user'[s] # user[s]) =>
         /\ \A B \in Users :
              B # user[s] => RowsOf(chats', B) = RowsOf(chats, B)
         /\ \A t \in Sessions \ {s} :
              /\ chat_start_index'[t] = chat_start_index[t]
              /\ user'[t] = user[t]
    ]_vars

\* C12's case: a session has just run Clear while another owner has records
\* stored and that owner's session has its cursor past 0
C12_Witness ==
  \E s \in Sessions, t \in Sessions :
    /\ s # t
    /\ user[s] # None /\ user[t] # None /\ user[s] # user[t]
    /\ pc[s] = "rendered" /\ inputs[s].button = "clear"
    /\ RowsOf(chats, user[t]) # <<>>
    /\ chat_start_index[t] > 0

\* the records of table that do not belong to u, in their order
C13_WithoutOwner(table, u) == SelectSeq(table, LAMBDA r : r.user_email # u)

\* C13: a step changes the table in one of two ways only: a turn whose
\* backend call returned appends exactly one record of the session's owner,
\* or a run with Clear deletes all of the owner's records and nothing else.
\* Runs with New Chat, Show Previous, a theme change, a search or no button,
\* a Send before its reply, and Logout leave the table as it was; a record
\* that stays stored keeps its input, its response and every other field.
C13_OnlyAppendOrClear ==
  [][/\ \/ chats' = chats
        \/ \E s \in Sessions :
             /\ pc[s] = "awaiting" /\ pc'[s] = "saved"
             /\ Len(chats') = Len(chats) + 1
             /\ SubSeq(chats', 1, Len(chats)) = chats
             /\ chats'[Len(chats')].user_email = user[s]
        \/ \E s \in Sessions :
             /\ pc[s] = "loaded" /\ pc'[s] = "rendered"
             /\ inputs'[s].button = "clear"
             /\ chats' = C13_WithoutOwner(chats, user[s])
     /\ \A s \in Sessions :
          ( /\ pc[s] = "loaded" /\ pc'[s] # "loaded"
            /\ \/ pc'[s] = "idle"
               \/ pc'[s] = "awaiting"
               \/ inputs'[s].button \in {"none", "new", "prev", "theme", "send"} )
            => chats' = chats
     /\ \A i \in 1..Len(chats), j \in 1..Len(chats') :
          chats[i].id = chats'[j].id => chats[i] = chats'[j]
    ]_vars

\* C13's case: a run with a search query changed the theme, or opened a new
\* chat, over a table that holds records
C13_Witness ==
  \E s \in Sessions :
    /\ pc[s] = "rendered"
    /\ inputs[s].button \in {"theme", "new"}
    /\ inputs[s].search_query # <<>>
    /\ RowsOf(chats, user[s]) # <<>>

\* what a run of session s would display from the table and the cursor as
\* they are now: the filter over the owner's list cut at chat_start_index
C14_ShownNow(s) ==
  { Displayed(VisibleSlice(all, chat_start_index[s]), inputs[s].search_query) :
      all \in get_user_chats(chats, user[s]) }

\* C14: in every page run the records displayed are the search filter over
\* the owner's stored list cut at the session's chat_start_index, as both
\* stand when the records are displayed; so the run that handles Clear shows
\* no deleted record and the run that handles New Chat shows none at all.
C14_DisplayMatchesStore ==
  \A s \in tabs :
    pc[s] \in {"rendered", "awaiting"} =>
      displayed_chats[s] \in C14_ShownNow(s)

\* the part of C14 that holds: a run whose sidebar buttons were not pressed
\* displays the filter over the stored list cut at the cursor
C14_QuietRunDisplayMatches ==
  \A s \in tabs :
    ( /\ pc[s] \in {"rendered", "awaiting"}
      /\ inputs[s].button \in {"none", "theme", "send"}
      /\ Wide ) =>
      displayed_chats[s] \in C14_ShownNow(s)

\* C15: verify_user_token is idempotent for a valid token: for a token in
\* the users table that verifies now, within its expiry, verifying the same
\* token again on the table the first call leaves returns True again.
C15_VerifyIdempotent ==
  \A r \in users :
    LET first == verify_user_token(users, r.verification_token, now)
    IN (r.verification_token # Null /\ first.ok) =>
         verify_user_token(first.table, r.verification_token, now).ok

\* C15 for the page: a logged-out run whose verify_token is the mailed token
\* of an account still within its expiry reports success from main and
\* success again from auth_page.
C15_RunReportsSuccessTwice ==
  \A s \in tabs :
    ( /\ shown[s] # NothingShown
      /\ \E r \in users :
           /\ r.verification_token = shown[s].verify_tokens
           /\ now <= r.verification_token_expiry ) =>
      (shown[s].main = "success" /\ shown[s].auth_page = "success")

=============================================================================
